---- MODULE Spec2Model ----
(***************************************************************************)
(* Tier-role reconciliation engine of topbot (DB -> Discord).              *)
(*                                                                         *)
(* The model follows the "optimized" variant of the program                *)
(* (src/unnamed/part_000): a realtime change feed whose handler debounces  *)
(* per member, a per-member promise chain that serialises reconcileTier,   *)
(* the reconcileTier body with its caches, and the startup sweep.          *)
(*                                                                         *)
(* One action is one run-to-completion step of the JavaScript event loop:  *)
(* a callback runs from the point where it is resumed to its next await.   *)
(* The directory (Discord) and the store (Supabase) are the environment:   *)
(* their calls settle in separate actions and may fail.                    *)
(*                                                                         *)
(* Two further specifications cover what the optimized program does not    *)
(* contain: SpecCompute tries the desired-role and diff computations of    *)
(* the optimized program and of the earlier iterations kept in             *)
(* src/index.js on the same inputs; SpecAudit is the missing-discord_id    *)
(* audit of the first iteration.                                           *)
(***************************************************************************)
EXTENDS Integers, Sequences, FiniteSets, TLC

(***************************************************************************)
(* Bounds of the model.                                                    *)
(***************************************************************************)
\* What the environment does to the program in one behaviour: change-feed
\* events delivered, directory or store calls that fail, roles changed by
\* somebody else.
MaxEnv == 2

(***************************************************************************)
(* Values.                                                                 *)
(***************************************************************************)
DiscordIds == {"u1", "u2"}
NoId == ""                       \* discord_id null / absent (falsy)
NULL == 0                        \* JavaScript null        (tierNumber ?? null)
UNDEF == -1                      \* JavaScript undefined   (Map.get of a missing key)

TIER_ROLE_IDS == <<"role-T1", "role-T2", "role-T3", "role-T4">>
ALL_TIER_IDS == {TIER_ROLE_IDS[n] : n \in 1..4}
UnmanagedRole == "role-OTHER"
AllRoles == ALL_TIER_IDS \cup {UnmanagedRole}
\* Roles somebody else gives or takes away while the program runs
ExtRoles == {"role-T1"}
\* Roles whose position relative to the bot changes while the program runs
HierarchyRoles == {"role-T2"}

\* Values of the players.tier column are character sequences; the empty
\* sequence stands for null and for "" alike, which parseInt, `?? ""` and
\* String() treat the same way.  RawTiers are the values the change feed
\* writes while the program runs.
RawTiers == { <<"2">>, <<"?", "?">> }

\* The directory and the table when the program starts: one member holds a
\* tier role and a role of somebody else, the other holds two tier roles.
InitRoles == ("u1" :> {"role-T1", UnmanagedRole}) @@ ("u2" :> {"role-T2", "role-T3"})
InitRows == ("u1" :> [st |-> "linked", tier |-> <<>>]) @@
            ("u2" :> [st |-> "unlinked", tier |-> <<"1">>])

\* Answers of the hierarchy rule for the tier roles when the program starts:
\* the bot is above every tier role, or role-T2 is above the bot.
InitEditable == { [r \in ALL_TIER_IDS |-> TRUE],
                  [r \in ALL_TIER_IDS |-> r # "role-T2"] }

(***************************************************************************)
(* isValidTier: Number.parseInt(val, 10), then membership in [1,2,3,4].    *)
(***************************************************************************)
DigitChars == {"0", "1", "2", "3", "4", "5", "6", "7", "8", "9"}
DigitVal == ("0" :> 0) @@ ("1" :> 1) @@ ("2" :> 2) @@ ("3" :> 3) @@ ("4" :> 4) @@
            ("5" :> 5) @@ ("6" :> 6) @@ ("7" :> 7) @@ ("8" :> 8) @@ ("9" :> 9)

RECURSIVE SkipSpace(_)
SkipSpace(s) == IF s # <<>> /\ s[1] = " " THEN SkipSpace(Tail(s)) ELSE s

RECURSIVE DigitRun(_, _)
\* <<>> when s starts with no digit (NaN), else <<value of the digit prefix>>
DigitRun(s, acc) ==
    IF s # <<>> /\ s[1] \in DigitChars
    THEN DigitRun(Tail(s), <<(IF acc = <<>> THEN 0 ELSE acc[1]) * 10 + DigitVal[s[1]]>>)
    ELSE acc

parseInt(val) ==
    LET t == SkipSpace(val)
        neg == t # <<>> /\ t[1] = "-"
        u == IF t # <<>> /\ t[1] \in {"-", "+"} THEN Tail(t) ELSE t
        d == DigitRun(u, <<>>)
    IN  IF d = <<>> THEN <<>> ELSE IF neg THEN <<0 - d[1]>> ELSE d

isValidTier(val) ==
    LET n == parseInt(val)
    IN  IF n # <<>> /\ n[1] \in {1, 2, 3, 4} THEN n[1] ELSE NULL

(***************************************************************************)
(* The earlier iterations of the program kept in src/index.js compute the  *)
(* desired role and the role changes differently.  Their computations are  *)
(* modelled as operators on the same values.                               *)
(***************************************************************************)
RECURSIVE TrimEnd(_)
TrimEnd(s) == IF s # <<>> /\ s[Len(s)] = " " THEN TrimEnd(SubSeq(s, 1, Len(s) - 1)) ELSE s

\* String.prototype.trim
trim(s) == TrimEnd(SkipSpace(s))

\* String.prototype.toUpperCase, on the characters of TierInputs
toUpperCase(s) == [i \in 1..Len(s) |-> IF s[i] = "t" THEN "T" ELSE s[i]]

\* parseTier of the first iteration: accepts 1..4, "1".."4", "T1".."T4"
parseTier(val) ==
    LET s == toUpperCase(trim(val))
        u == IF s # <<>> /\ s[1] = "T" THEN Tail(s) ELSE s
        n == parseInt(u)
    IN  IF n # <<>> /\ n[1] \in {1, 2, 3, 4} THEN n[1] ELSE NULL

\* norm of the second iteration
norm(v) == toUpperCase(trim(v))

\* Keys of TIER_ROLE_IDS in the second iteration: "T1" .. "T4"
TierLabels == << <<"T", "1">>, <<"T", "2">>, <<"T", "3">>, <<"T", "4">> >>

\* desiredTierRoleId of the second iteration: {} stands for null
desiredTierRoleId(tier) ==
    LET t == norm(tier)
    IN  {TIER_ROLE_IDS[n] : n \in {k \in 1..4 : TierLabels[k] = t}}

\* What a reconcile run decides for a member once the member is fetched:
\* the roles it will pass to roles.remove and to roles.add.
NoPlan == [toRemove |-> {}, toAdd |-> {}]

\* First iteration: applyFromRow and the diff of its reconcileTier (no
\* hierarchy check)
applyFromRow(tier, obs) ==
    LET tierNum == parseTier(tier)
        desired == IF tierNum = NULL THEN {} ELSE {TIER_ROLE_IDS[tierNum]}
    IN  IF tierNum = NULL
        THEN NoPlan                     \* "leaving roles as-is"
        ELSE [toRemove |-> (obs \cap ALL_TIER_IDS) \ desired, toAdd |-> desired \ obs]

\* Second iteration: reconcileTierRoles(discordId, tierRoleId), with
\* desired = {tierRoleId} or {} and ed the answers of canEditRole
reconcileTierRoles(desired, obs, ed) ==
    IF desired = {} THEN NoPlan         \* DB has no tier: do nothing
    ELSE IF \E r \in desired : ~ed[r] THEN NoPlan
    ELSE [toRemove |-> {r \in obs \cap ALL_TIER_IDS : r \notin desired /\ ed[r]},
          toAdd |-> desired \ obs]

(***************************************************************************)
(* State.                                                                  *)
(***************************************************************************)
VARIABLES
    db,               \* players table: row of member k -> [st, tier]
    roles,            \* directory: member -> set of role ids held
    editable,         \* directory: tier role -> can the bot edit it now
    manageRoles,      \* directory: me.permissions.has(ManageRoles)
    guildPromise,     \* [st: "unset" | "pending" | "fulfilled" | "rejected",
                      \*  by: member whose task created the promise]
    mePromise,        \* the same, for the acting identity
    editableRoleCache,\* tier role -> "none" | "yes" | "no"
    lastAppliedTier,  \* member -> UNDEF | NULL | 1..4
    debounceTimers,   \* member -> handle registered in the Map, 0 when absent
    liveTimers,       \* member -> armed timers of the event loop, [h, tier]
    memberQueues,     \* member -> index of the chain's tail task, 0 when absent
    tasks,            \* member -> sequence of the tasks ever enqueued
    sweep,            \* startupSweep: [pc, data]
    window,           \* history: tiers of the schedule calls of the open window
    windows,          \* history: member -> debounce windows opened so far
    extSince,         \* history: member -> roles changed by somebody else
                      \*          since the member's last task settled
    calc,             \* a computation of the desired role and of the role
                      \* changes, tried on one row and one member
    audit,            \* the missing-discord_id audit of src/index.js: its
                      \* state, the store it reads and its invocations
    arrivedDuring,    \* history: member -> the task of the member suspended at
                      \*          roles.remove / roles.add when the last relevant
                      \*          change event was handled, else 0
    seenTail,         \* history: member -> the chain's tail task if it had
                      \*          settled when the last schedule call was made,
                      \*          else 0
    nEnv              \* events, failures and outside changes so far

vars == << db, roles, editable, manageRoles, guildPromise, mePromise,
           editableRoleCache, lastAppliedTier, debounceTimers, liveTimers,
           memberQueues, tasks, sweep, window, windows, extSince,
           seenTail, arrivedDuring, calc, audit, nEnv >>

Settled == {"fulfilled", "rejected"}
NoPromise == [st |-> "unset", by |-> NoId]

AbsentRow == [st |-> "absent", tier |-> <<>>]
Rows == [st : {"unlinked", "linked"}, tier : RawTiers]

\* row.discord_id of the row of member k
DiscordIdOf(k, row) == IF row.st = "linked" THEN k ELSE NoId

\* The values the computations are tried on: tier values as the table may
\* hold them (labels, digits, padded, lower case, malformed, empty) and the
\* roles a member may hold.
TierInputs == { <<>>, <<"2">>, <<"T", "1">>, <<"T", "2">>, <<"T", "3">>, <<"T", "4">>,
                <<"t", "2">>, <<" ", "T", "2", " ">>, <<"?", "?">>, <<"5">>, <<"2", "x">> }
ObsInputs == SUBSET AllRoles

NoCalc == [on |-> FALSE, tier |-> <<>>, obs |-> {}, done |-> {},
           wantOptimized |-> {}, wantFirst |-> {}, wantSecond |-> {},
           optimized |-> NoPlan, first |-> NoPlan, second |-> NoPlan]

\* The program once the ready handler has subscribed to the change feed and
\* issued the sweep query
Loaded ==
    /\ db = InitRows
    /\ roles = InitRoles
    /\ editable \in InitEditable
    /\ manageRoles \in BOOLEAN
    /\ guildPromise = NoPromise
    /\ mePromise = NoPromise
    /\ editableRoleCache = [r \in ALL_TIER_IDS |-> "none"]
    /\ lastAppliedTier = [m \in DiscordIds |-> UNDEF]
    /\ debounceTimers = [m \in DiscordIds |-> 0]
    /\ liveTimers = [m \in DiscordIds |-> {}]
    /\ memberQueues = [m \in DiscordIds |-> 0]
    /\ tasks = [m \in DiscordIds |-> <<>>]
    /\ sweep = [pc |-> "fetching", data |-> InitRows]
    /\ window = [m \in DiscordIds |-> <<>>]
    /\ windows = [m \in DiscordIds |-> 0]
    /\ extSince = [m \in DiscordIds |-> FALSE]
    /\ seenTail = [m \in DiscordIds |-> 0]
    /\ arrivedDuring = [m \in DiscordIds |-> 0]
    /\ nEnv = 0

NoAudit == [on |-> FALSE, configured |-> FALSE, missing |-> {}, lastMissingKey |-> <<>>,
            runs |-> <<>>, lastSaw |-> {}, changes |-> 0]

Init == Loaded /\ calc = NoCalc /\ audit = NoAudit

(***************************************************************************)
(* Tasks: one record per call of enqueueForMember.  The fields after `ad`  *)
(* are history kept for the properties; the program reads none of them.    *)
(***************************************************************************)
NewTask(tier, src, prev, win) ==
    [ tier |-> tier,          \* tierNumber captured by the closure
      src |-> src,            \* "timer" | "sweep"
      prev |-> prev,          \* chain predecessor, 0 for Promise.resolve()
      st |-> "waiting",       \* "waiting" | "running" | "fulfilled" | "rejected"
      pc |-> "none",          \* await the running task is suspended at
      obs |-> {},             \* member.roles.cache as read after the fetch
      toRemove |-> {}, toAdd |-> {},
      rm |-> "none",          \* roles.remove: "none" | "inflight" | "ok" | "failed"
      ad |-> "none",          \* roles.add:    "none" | "inflight" | "ok" | "failed"
      ran |-> FALSE,          \* fn was called
      diffed |-> FALSE,       \* the task reached "Build minimal changes"
      canAll |-> FALSE,       \* canEditRoleCached answered true for every tier role
      calls |-> 0,            \* remove / add calls submitted
      ok |-> FALSE,           \* the task reached a lastAppliedTier.set
      skipped |-> FALSE,      \* the task returned at the last-applied check
      ext |-> FALSE,          \* roles changed by somebody else since the
                              \* previous task of the member settled
      inherited |-> FALSE,    \* the task awaited a lookup promise that another
                              \* member's task had created and that had failed
      win |-> win,            \* schedule calls coalesced into the task
      seen |-> 0,            \* the task's predecessor, if it had settled when
                              \* the change event of the task was handled
      during |-> 0 ]          \* the task of the member that was suspended at
                              \* roles.remove / roles.add when the change event
                              \* of the task was handled

\* Mutant of ChainPrev: the chain's tail is forgotten, every task is chained
\* on a fresh Promise.resolve()
ChainPrevResolved(q) == 0

\* memberQueues.get(discordId) || Promise.resolve()
ChainPrev(q) == q

\* Mutant of ChainCallsFn: prev.then(fn) without the catch, a rejection of
\* prev passes down the chain and fn is not called
ChainCallsFnNoCatch(prevSt) == prevSt = "fulfilled"

\* prev.catch(() => {}).then(fn): fn is called whatever prev settled to
ChainCallsFn(prevSt) == prevSt \in Settled

enqueueForMember(ts, q, tier, src, win) == Append(ts, NewTask(tier, src, ChainPrev(q), win))

PrevSt(m, i) == IF tasks[m][i].prev = 0 THEN "fulfilled" ELSE tasks[m][tasks[m][i].prev].st

(***************************************************************************)
(* scheduleApplyFromRow and the debounce timers.                           *)
(***************************************************************************)
FreshHandle(live) == CHOOSE h \in 1..(Cardinality(live) + 1) : \A t \in live : t.h # h

\* Mutant of ClearTimeout: the pending timer is not cancelled
ClearTimeoutNothing(live, h) == live

\* clearTimeout(debounceTimers.get(discordId))
ClearTimeout(live, h) == {t \in live : t.h # h}

\* const t = setTimeout(...): the timer created after the clearTimeout
NewTimer(live, registered, tier) ==
    [h |-> FreshHandle(ClearTimeout(live, registered)), tier |-> tier]

\* Mutant of ArmTimer: a pending timer is left as it is (first call wins)
ArmTimerFirstWins(live, registered, tier) ==
    IF \E t \in live : t.h = registered
    THEN live
    ELSE live \cup {NewTimer(live, registered, tier)}

\* clearTimeout(...) then setTimeout(...): the armed timers afterwards
ArmTimer(live, registered, tier) ==
    ClearTimeout(live, registered) \cup {NewTimer(live, registered, tier)}

\* Mutant of scheduleApplyFromRow: the tier is computed from the row the
\* program saw last for the member, not from the row it is given
scheduleApplyFromRowStale(m, row) ==
    LET tier == isValidTier(db[m].tier)
    IN  IF DiscordIdOf(m, row) = NoId
        THEN UNCHANGED << liveTimers, debounceTimers, window, windows, seenTail >>
        ELSE /\ liveTimers' = [liveTimers EXCEPT ![m] = ArmTimer(@, debounceTimers[m], tier)]
             /\ debounceTimers' = [debounceTimers EXCEPT ![m] =
                                      NewTimer(liveTimers[m], @, tier).h]
             /\ window' = [window EXCEPT ![m] = Append(@, tier)]
             /\ windows' = [windows EXCEPT ![m] = IF liveTimers[m] = {} THEN @ + 1 ELSE @]
             /\ seenTail' = [seenTail EXCEPT ![m] =
                                 IF /\ memberQueues[m] # 0
                                    /\ tasks[m][memberQueues[m]].st \in Settled
                                 THEN memberQueues[m] ELSE 0]

\* Mutant of scheduleApplyFromRow: a change event is dropped while a task of
\* the member is running
scheduleApplyFromRowDropBusy(m, row) ==
    LET tier == isValidTier(row.tier)
    IN  IF DiscordIdOf(m, row) = NoId \/ \E i \in 1..Len(tasks[m]) : tasks[m][i].st = "running"
        THEN UNCHANGED << liveTimers, debounceTimers, window, windows, seenTail >>
        ELSE /\ liveTimers' = [liveTimers EXCEPT ![m] = ArmTimer(@, debounceTimers[m], tier)]
             /\ debounceTimers' = [debounceTimers EXCEPT ![m] =
                                      NewTimer(liveTimers[m], @, tier).h]
             /\ window' = [window EXCEPT ![m] = Append(@, tier)]
             /\ windows' = [windows EXCEPT ![m] = IF liveTimers[m] = {} THEN @ + 1 ELSE @]
             /\ seenTail' = [seenTail EXCEPT ![m] =
                                 IF /\ memberQueues[m] # 0
                                    /\ tasks[m][memberQueues[m]].st \in Settled
                                 THEN memberQueues[m] ELSE 0]

scheduleApplyFromRow(m, row) ==
    LET tier == isValidTier(row.tier)
    IN  IF DiscordIdOf(m, row) = NoId           \* if (!row?.discord_id) return
        THEN UNCHANGED << liveTimers, debounceTimers, window, windows, seenTail >>
        ELSE /\ liveTimers' = [liveTimers EXCEPT ![m] = ArmTimer(@, debounceTimers[m], tier)]
             /\ debounceTimers' = [debounceTimers EXCEPT ![m] =
                                      NewTimer(liveTimers[m], @, tier).h]
             /\ window' = [window EXCEPT ![m] = Append(@, tier)]
             /\ windows' = [windows EXCEPT ![m] = IF liveTimers[m] = {} THEN @ + 1 ELSE @]
             /\ seenTail' = [seenTail EXCEPT ![m] =
                                 IF /\ memberQueues[m] # 0
                                    /\ tasks[m][memberQueues[m]].st \in Settled
                                 THEN memberQueues[m] ELSE 0]

\* The callback given to setTimeout
TimerFire(m) ==
    \E t \in liveTimers[m] :
        /\ tasks' = [tasks EXCEPT ![m] =
                        LET ts == enqueueForMember(@, memberQueues[m], t.tier, "timer", window[m])
                        IN  [ts EXCEPT ![Len(ts)].seen = seenTail[m],
                                       ![Len(ts)].during = arrivedDuring[m]]]
        /\ memberQueues' = [memberQueues EXCEPT ![m] = Len(tasks[m]) + 1]
        /\ debounceTimers' = [debounceTimers EXCEPT ![m] = 0]
        /\ liveTimers' = [liveTimers EXCEPT ![m] = @ \ {t}]
        /\ window' = [window EXCEPT ![m] = <<>>]
        /\ arrivedDuring' = [arrivedDuring EXCEPT ![m] = 0]
        /\ UNCHANGED << db, roles, editable, manageRoles, guildPromise, mePromise,
                        editableRoleCache, lastAppliedTier, sweep, calc, audit,
                        windows, seenTail, extSince,
                        nEnv >>

(***************************************************************************)
(* startRealtime: the postgres_changes handler.                            *)
(***************************************************************************)
\* Mutant of Relevant: every insert or update of a linked row is relevant,
\* whether a tracked field changed or not
RelevantAnyUpdate(kind, k, before, after) ==
    kind \in {"INSERT", "UPDATE"} /\ DiscordIdOf(k, after) # NoId

\* Does the handler call scheduleApplyFromRow(after)?
Relevant(kind, k, before, after) ==
    CASE kind = "INSERT" -> DiscordIdOf(k, after) # NoId
      [] kind = "UPDATE" ->
            LET discordChanged == DiscordIdOf(k, before) # DiscordIdOf(k, after)
                tierChanged == before.tier # after.tier
            IN  (discordChanged \/ tierChanged) /\ DiscordIdOf(k, after) # NoId
      [] OTHER -> FALSE

\* The task of member m suspended at `await member.roles.remove(...)` or at
\* `await member.roles.add(...)`, 0 if there is none
InFlight(m) ==
    LET S == {i \in 1..Len(tasks[m]) :
                 tasks[m][i].st = "running" /\ tasks[m][i].pc \in {"remove", "add"}}
    IN  IF S = {} THEN 0 ELSE CHOOSE i \in S : TRUE

OnChange(kind, k, before, after) ==
    /\ nEnv < MaxEnv
    /\ nEnv' = nEnv + 1
    /\ db' = [db EXCEPT ![k] = after]
    /\ IF Relevant(kind, k, before, after)
       THEN scheduleApplyFromRow(k, after)
       ELSE UNCHANGED << liveTimers, debounceTimers, window, windows, seenTail >>
    /\ arrivedDuring' = IF Relevant(kind, k, before, after)
                        THEN [arrivedDuring EXCEPT ![k] = InFlight(k)]
                        ELSE arrivedDuring
    /\ UNCHANGED << roles, editable, manageRoles, guildPromise, mePromise,
                    editableRoleCache, lastAppliedTier, memberQueues, tasks, sweep, calc, audit,
                    extSince >>

InsertEvent(k) ==
    /\ db[k].st = "absent"
    /\ \E after \in Rows : OnChange("INSERT", k, AbsentRow, after)

\* An UPDATE changes the tier, or the discord_id, or neither of them
UpdatedRows(before) ==
    {r \in Rows : r.st = before.st} \cup
    {[before EXCEPT !.st = IF @ = "linked" THEN "unlinked" ELSE "linked"], before}

UpdateEvent(k) ==
    /\ db[k].st # "absent"
    /\ \E after \in UpdatedRows(db[k]) : OnChange("UPDATE", k, db[k], after)

DeleteEvent(k) ==
    /\ db[k].st # "absent"
    /\ OnChange("DELETE", k, db[k], AbsentRow)

(***************************************************************************)
(* startupSweep.  The ready handler issues the query in the same           *)
(* run-to-completion step that ends the subscription, before any change    *)
(* event is handled: the query is in flight, over the initial table, when  *)
(* the model starts.                                                       *)
(***************************************************************************)
\* Mutant of SweepRows: the query has no filter on discord_id
SweepRowsUnfiltered(data) == {m \in DiscordIds : data[m].st # "absent"}

\* rows the query returns: .not("discord_id", "is", null)
SweepRows(data) == {m \in DiscordIds : data[m].st = "linked"}

SweepReturn ==
    /\ sweep.pc = "fetching"
    /\ sweep' = [pc |-> "done", data |-> [m \in DiscordIds |-> AbsentRow]]
    /\ \/ /\ nEnv < MaxEnv              \* if (error) return
          /\ nEnv' = nEnv + 1
          /\ UNCHANGED << tasks, memberQueues >>
       \/ /\ tasks' = [m \in DiscordIds |->
                         IF m \in SweepRows(sweep.data)
                         THEN enqueueForMember(tasks[m], memberQueues[m],
                                               isValidTier(sweep.data[m].tier), "sweep", <<>>)
                         ELSE tasks[m]]
          /\ memberQueues' = [m \in DiscordIds |->
                                IF m \in SweepRows(sweep.data)
                                THEN Len(tasks[m]) + 1 ELSE memberQueues[m]]
          /\ UNCHANGED nEnv
    /\ UNCHANGED << db, roles, editable, manageRoles, guildPromise, mePromise,
                    editableRoleCache, lastAppliedTier, debounceTimers, liveTimers,
                    window, windows, seenTail, arrivedDuring, extSince, calc, audit >>

(***************************************************************************)
(* reconcileTier.                                                          *)
(***************************************************************************)
Desired(tierNumber) == IF tierNumber = NULL THEN {} ELSE {TIER_ROLE_IDS[tierNumber]}

\* canEditRoleCached(guild, me, roleId): the cached answer if there is one
canEditRoleCached(cache, ed, roleId) ==
    IF cache[roleId] # "none" THEN cache[roleId] = "yes" ELSE ed[roleId]

\* Mutant of DiffRemove: the member's roles are not filtered by ALL_TIER_IDS
DiffRemoveUnfiltered(desired, obs, can) ==
    {r \in obs : r \notin desired /\ (r \in ALL_TIER_IDS => can[r])}

\* "Build minimal changes": can[r] is the answer of canEditRoleCached for r
DiffRemove(desired, obs, can) ==
    {r \in obs \cap ALL_TIER_IDS : r \notin desired /\ can[r]}

\* Mutant of DiffAdd: the desired role is added without looking at the
\* roles the member holds
DiffAddBlind(desired, obs, can) ==
    {r \in desired : can[r]}

DiffAdd(desired, obs, can) ==
    {r \in desired : r \notin obs /\ can[r]}

\* roles canEditRoleCached is called for while the diff is built
Asked(desired, obs) ==
    {r \in obs \cap ALL_TIER_IDS : r \notin desired} \cup {r \in desired : r \notin obs}

\* Mutant of NextCall: the add is submitted before the remove
NextCallAddFirst(t) ==
    IF t.rm = "failed" \/ t.ad = "failed" THEN "catch"
    ELSE IF t.ad = "none" /\ t.toAdd # {} THEN "add"
    ELSE IF t.rm = "none" /\ t.toRemove # {} THEN "remove"
    ELSE "set"

\* Mutant of NextCall: each call has a try block of its own, a failed
\* remove does not stop the add
NextCallIndependent(t) ==
    IF t.ad = "failed" THEN "catch"
    ELSE IF t.rm = "none" /\ t.toRemove # {} THEN "remove"
    ELSE IF t.ad = "none" /\ t.toAdd # {} THEN "add"
    ELSE IF t.rm = "failed" THEN "catch"
    ELSE "set"

\* The try block: what the task does next, given the calls made so far
NextCall(t) ==
    IF t.rm = "failed" \/ t.ad = "failed" THEN "catch"
    ELSE IF t.rm = "none" /\ t.toRemove # {} THEN "remove"
    ELSE IF t.ad = "none" /\ t.toAdd # {} THEN "add"
    ELSE "set"

\* The task returns: its promise fulfils
Return(m, t, ok) ==
    [t EXCEPT !.st = "fulfilled", !.pc = "done", !.ok = ok, !.ext = extSince[m]]

\* The task throws: its promise rejects
Throw(m, t) ==
    [t EXCEPT !.st = "rejected", !.pc = "done", !.ext = extSince[m]]

\* Run the try block from the current point to its next await or to its end
Continue(m, i, t) ==
    LET c == NextCall(t)
    IN  /\ tasks' = [tasks EXCEPT ![m][i] =
                CASE c = "remove" -> [t EXCEPT !.rm = "inflight", !.pc = "remove", !.calls = @ + 1]
                  [] c = "add" -> [t EXCEPT !.ad = "inflight", !.pc = "add", !.calls = @ + 1]
                  [] c = "set" -> Return(m, t, TRUE)
                  [] OTHER -> Return(m, t, FALSE)]
        /\ lastAppliedTier' = IF c = "set"
                              THEN [lastAppliedTier EXCEPT ![m] = t.tier]
                              ELSE lastAppliedTier
        /\ extSince' = IF c \in {"set", "catch"}
                       THEN [extSince EXCEPT ![m] = FALSE]
                       ELSE extSince

\* getGuild() / getMe(): the promise after the call made by a task of m
Cached(promise, m, fresh) == IF promise.st = "unset" THEN [st |-> fresh, by |-> m] ELSE promise

Inherits(promise, m) == promise.st = "rejected" /\ promise.by # m

\* Mutant of AfterMe: the last-applied check is missing
AfterMeNoCheck(m, t, mp) ==
    IF mp.st = "rejected" THEN Throw(m, t)
    ELSE IF ~manageRoles THEN Return(m, t, FALSE)
    ELSE [t EXCEPT !.pc = "member"]

\* From `await mePromise` on, once mePromise (value mp) has settled: the
\* permission check, the last-applied check and the member fetch
AfterMe(m, t, mp) ==
    IF mp.st = "rejected" THEN Throw(m, t)
    ELSE IF ~manageRoles THEN Return(m, t, FALSE)
    ELSE IF lastAppliedTier[m] = t.tier THEN Return(m, [t EXCEPT !.skipped = TRUE], FALSE)
    ELSE [t EXCEPT !.pc = "member"]

\* From `await getGuild()` on, once guildPromise (value gp) has settled; mp is
\* mePromise after getMe(guild).  An await of a settled promise resumes in a
\* microtask, before any timer or I/O callback, so the step does not end there.
AfterGuild(m, t, gp, mp) ==
    IF gp.st = "rejected" THEN Throw(m, t)
    ELSE LET u == [t EXCEPT !.inherited = @ \/ Inherits(mePromise, m)]
         IN  IF mp.st = "pending" THEN [u EXCEPT !.pc = "me"] ELSE AfterMe(m, u, mp)

\* extSince after a step of a task of m that leaves the task as u
Noted(m, u) == IF u.st \in Settled THEN [extSince EXCEPT ![m] = FALSE] ELSE extSince

\* The chain calls fn: reconcileTier runs to its first await of a pending promise
StartTask(m, i) ==
    /\ tasks[m][i].st = "waiting"
    /\ PrevSt(m, i) \in Settled
    /\ IF ChainCallsFn(PrevSt(m, i))
       THEN LET t == [tasks[m][i] EXCEPT !.st = "running", !.ran = TRUE,
                                         !.inherited = Inherits(guildPromise, m)]
                gp == Cached(guildPromise, m, "pending")
            IN  /\ guildPromise' = gp
                /\ IF gp.st = "pending"
                   THEN /\ tasks' = [tasks EXCEPT ![m][i] = [t EXCEPT !.pc = "guild"]]
                        /\ UNCHANGED << mePromise, extSince >>
                   ELSE \E fresh \in {"fulfilled", "pending"} :  \* guild.members.me || fetch(...)
                          /\ gp.st = "fulfilled" \/ fresh = "fulfilled"
                          /\ mePromise.st # "unset" => fresh = "fulfilled"
                          /\ mePromise' = IF gp.st = "fulfilled"
                                          THEN Cached(mePromise, m, fresh) ELSE mePromise
                          /\ tasks' = [tasks EXCEPT ![m][i] = AfterGuild(m, t, gp, mePromise')]
                          /\ extSince' = Noted(m, tasks'[m][i])
       ELSE /\ tasks' = [tasks EXCEPT ![m][i] = Throw(m, @)]
            /\ extSince' = [extSince EXCEPT ![m] = FALSE]
            /\ UNCHANGED << guildPromise, mePromise >>
    /\ UNCHANGED << db, roles, editable, manageRoles,
                    editableRoleCache, lastAppliedTier, debounceTimers, liveTimers,
                    memberQueues, sweep, calc, audit, window, windows,
                    seenTail, arrivedDuring, nEnv >>

\* client.guilds.fetch(GUILD_ID) settles
GuildSettle ==
    /\ guildPromise.st = "pending"
    /\ \/ guildPromise' = [guildPromise EXCEPT !.st = "fulfilled"] /\ UNCHANGED nEnv
       \/ /\ nEnv < MaxEnv
          /\ nEnv' = nEnv + 1
          /\ guildPromise' = [guildPromise EXCEPT !.st = "rejected"]
    /\ UNCHANGED << db, roles, editable, manageRoles, mePromise,
                    editableRoleCache, lastAppliedTier, debounceTimers, liveTimers,
                    memberQueues, tasks, sweep, calc, audit, window, windows,
                    seenTail, arrivedDuring, extSince >>

\* `await getGuild()` resumes
AwaitGuild(m, i) ==
    /\ tasks[m][i].st = "running" /\ tasks[m][i].pc = "guild"
    /\ guildPromise.st \in Settled
    /\ \E fresh \in {"fulfilled", "pending"} :       \* guild.members.me || fetch(...)
          /\ guildPromise.st = "fulfilled" \/ fresh = "fulfilled"
          /\ mePromise.st # "unset" => fresh = "fulfilled"
          /\ mePromise' = IF guildPromise.st = "fulfilled"
                          THEN Cached(mePromise, m, fresh) ELSE mePromise
          /\ tasks' = [tasks EXCEPT ![m][i] = AfterGuild(m, @, guildPromise, mePromise')]
    /\ extSince' = Noted(m, tasks'[m][i])
    /\ UNCHANGED << db, roles, editable, manageRoles, guildPromise,
                    editableRoleCache, lastAppliedTier, debounceTimers, liveTimers,
                    memberQueues, sweep, calc, audit, window, windows,
                    seenTail, arrivedDuring, nEnv >>

\* guild.members.fetch(client.user.id) settles
MeSettle ==
    /\ mePromise.st = "pending"
    /\ \/ mePromise' = [mePromise EXCEPT !.st = "fulfilled"] /\ UNCHANGED nEnv
       \/ /\ nEnv < MaxEnv
          /\ nEnv' = nEnv + 1
          /\ mePromise' = [mePromise EXCEPT !.st = "rejected"]
    /\ UNCHANGED << db, roles, editable, manageRoles, guildPromise,
                    editableRoleCache, lastAppliedTier, debounceTimers, liveTimers,
                    memberQueues, tasks, sweep, calc, audit, window, windows,
                    seenTail, arrivedDuring, extSince >>

\* `await mePromise` resumes
AwaitMe(m, i) ==
    /\ tasks[m][i].st = "running" /\ tasks[m][i].pc = "me"
    /\ mePromise.st \in Settled
    /\ tasks' = [tasks EXCEPT ![m][i] = AfterMe(m, @, mePromise)]
    /\ extSince' = Noted(m, tasks'[m][i])
    /\ UNCHANGED << db, roles, editable, manageRoles, guildPromise, mePromise,
                    editableRoleCache, lastAppliedTier, debounceTimers, liveTimers,
                    memberQueues, sweep, calc, audit, window, windows,
                    seenTail, arrivedDuring, nEnv >>

\* guild.members.fetch(discordId) settles and the task runs on to its first
\* roles.remove / roles.add, or to its end
AwaitMember(m, i) ==
    LET t == tasks[m][i]
        obs == roles[m]
        current == obs \cap ALL_TIER_IDS
        desired == Desired(t.tier)
        can == [r \in ALL_TIER_IDS |-> canEditRoleCached(editableRoleCache, editable, r)]
        d == [t EXCEPT !.obs = obs, !.diffed = TRUE,
                       !.canAll = \A r \in ALL_TIER_IDS : can[r],
                       !.toRemove = DiffRemove(desired, obs, can),
                       !.toAdd = DiffAdd(desired, obs, can)]
    IN  /\ t.st = "running" /\ t.pc = "member"
        /\ \/ /\ nEnv < MaxEnv             \* .catch(() => null); if (!member) return
              /\ nEnv' = nEnv + 1
              /\ tasks' = [tasks EXCEPT ![m][i] = Return(m, t, FALSE)]
              /\ extSince' = [extSince EXCEPT ![m] = FALSE]
              /\ UNCHANGED << lastAppliedTier, editableRoleCache >>
           \/ /\ current = desired           \* the two short-circuit cases
              /\ tasks' = [tasks EXCEPT ![m][i] = Return(m, [t EXCEPT !.obs = obs], TRUE)]
              /\ lastAppliedTier' = [lastAppliedTier EXCEPT ![m] = t.tier]
              /\ extSince' = [extSince EXCEPT ![m] = FALSE]
              /\ UNCHANGED << nEnv, editableRoleCache >>
           \/ /\ current # desired
              /\ editableRoleCache' = [r \in ALL_TIER_IDS |->
                     IF r \in Asked(desired, obs) /\ editableRoleCache[r] = "none"
                     THEN (IF editable[r] THEN "yes" ELSE "no")
                     ELSE editableRoleCache[r]]
              /\ Continue(m, i, d)
              /\ UNCHANGED nEnv
        /\ UNCHANGED << db, roles, editable, manageRoles, guildPromise, mePromise,
                        debounceTimers, liveTimers, memberQueues, sweep, calc, audit,
                        window, windows, seenTail, arrivedDuring >>

\* member.roles.remove(toRemove) settles
SettleRemove(m, i) ==
    LET t == tasks[m][i]
    IN  /\ t.st = "running" /\ t.pc = "remove"
        /\ \/ /\ roles' = [roles EXCEPT ![m] = @ \ t.toRemove]
              /\ Continue(m, i, [t EXCEPT !.rm = "ok"])
              /\ UNCHANGED nEnv
           \/ /\ nEnv < MaxEnv
              /\ nEnv' = nEnv + 1
              /\ Continue(m, i, [t EXCEPT !.rm = "failed"])
              /\ UNCHANGED roles
        /\ UNCHANGED << db, editable, manageRoles, guildPromise, mePromise,
                        editableRoleCache, debounceTimers, liveTimers, memberQueues,
                        sweep, calc, audit, window, windows, seenTail, arrivedDuring >>

\* member.roles.add(toAdd) settles
SettleAdd(m, i) ==
    LET t == tasks[m][i]
    IN  /\ t.st = "running" /\ t.pc = "add"
        /\ \/ /\ roles' = [roles EXCEPT ![m] = @ \cup t.toAdd]
              /\ Continue(m, i, [t EXCEPT !.ad = "ok"])
              /\ UNCHANGED nEnv
           \/ /\ nEnv < MaxEnv
              /\ nEnv' = nEnv + 1
              /\ Continue(m, i, [t EXCEPT !.ad = "failed"])
              /\ UNCHANGED roles
        /\ UNCHANGED << db, editable, manageRoles, guildPromise, mePromise,
                        editableRoleCache, debounceTimers, liveTimers, memberQueues,
                        sweep, calc, audit, window, windows, seenTail, arrivedDuring >>

(***************************************************************************)
(* The directory changes under the program's feet.                         *)
(***************************************************************************)
\* Somebody else gives a member a role or takes one away
ExternalChange(m) ==
    /\ nEnv < MaxEnv
    /\ nEnv' = nEnv + 1
    /\ \E r \in ExtRoles :
          roles' = [roles EXCEPT ![m] = IF r \in @ THEN @ \ {r} ELSE @ \cup {r}]
    /\ extSince' = [extSince EXCEPT ![m] = TRUE]
    /\ UNCHANGED << db, editable, manageRoles, guildPromise, mePromise,
                    editableRoleCache, lastAppliedTier, debounceTimers, liveTimers,
                    memberQueues, tasks, sweep, calc, audit, window, windows,
                    seenTail, arrivedDuring >>

\* The role hierarchy is rearranged: a tier role moves above or below the bot
HierarchyChange ==
    /\ nEnv < MaxEnv
    /\ nEnv' = nEnv + 1
    /\ \E r \in HierarchyRoles : editable' = [editable EXCEPT ![r] = ~@]
    /\ UNCHANGED << db, roles, manageRoles, guildPromise, mePromise,
                    editableRoleCache, lastAppliedTier, debounceTimers, liveTimers,
                    memberQueues, tasks, sweep, calc, audit, window, windows,
                    seenTail, arrivedDuring, extSince >>

Next ==
    \/ \E k \in DiscordIds : InsertEvent(k)
    \/ \E k \in DiscordIds : UpdateEvent(k)
    \/ \E k \in DiscordIds : DeleteEvent(k)
    \/ \E m \in DiscordIds : TimerFire(m)
    \/ SweepReturn
    \/ \E m \in DiscordIds : \E i \in 1..Len(tasks[m]) : StartTask(m, i)
    \/ GuildSettle
    \/ \E m \in DiscordIds : \E i \in 1..Len(tasks[m]) : AwaitGuild(m, i)
    \/ MeSettle
    \/ \E m \in DiscordIds : \E i \in 1..Len(tasks[m]) : AwaitMe(m, i)
    \/ \E m \in DiscordIds : \E i \in 1..Len(tasks[m]) : AwaitMember(m, i)
    \/ \E m \in DiscordIds : \E i \in 1..Len(tasks[m]) : SettleRemove(m, i)
    \/ \E m \in DiscordIds : \E i \in 1..Len(tasks[m]) : SettleAdd(m, i)
    \/ \E m \in DiscordIds : ExternalChange(m)
    \/ HierarchyChange

Spec == Init /\ [][Next]_vars

(***************************************************************************)
(* The computations of the desired role and of the role changes, tried on  *)
(* every tier value of TierInputs and every set of roles held: the         *)
(* optimized program and the two earlier iterations, each run once.        *)
(***************************************************************************)
programVars == << db, roles, editable, manageRoles, guildPromise, mePromise,
                  editableRoleCache, lastAppliedTier, debounceTimers, liveTimers,
                  memberQueues, tasks, sweep, window, windows, extSince,
                  seenTail, arrivedDuring, nEnv >>

InitCompute ==
    /\ Loaded
    /\ \E tier \in TierInputs, obs \in ObsInputs :
          calc = [NoCalc EXCEPT !.on = TRUE, !.tier = tier, !.obs = obs]
    /\ audit = NoAudit

\* The optimized program: scheduleApplyFromRow's isValidTier, then the
\* short-circuit cases and "Build minimal changes" of reconcileTier
reconcileTierDiff(tierNumber, obs, can) ==
    IF obs \cap ALL_TIER_IDS = Desired(tierNumber)
    THEN NoPlan
    ELSE [toRemove |-> DiffRemove(Desired(tierNumber), obs, can),
          toAdd |-> DiffAdd(Desired(tierNumber), obs, can)]

ComputeOptimized ==
    /\ calc.on /\ "optimized" \notin calc.done
    /\ calc' = [calc EXCEPT !.done = @ \cup {"optimized"},
                            !.wantOptimized = Desired(isValidTier(calc.tier)),
                            !.optimized = reconcileTierDiff(isValidTier(calc.tier),
                                                            calc.obs, editable)]
    /\ UNCHANGED << programVars, audit >>

\* The first iteration (src/index.js, applyFromRow and reconcileTier)
ComputeFirst ==
    /\ calc.on /\ "first" \notin calc.done
    /\ calc' = [calc EXCEPT !.done = @ \cup {"first"},
                            !.wantFirst = Desired(parseTier(calc.tier)),
                            !.first = applyFromRow(calc.tier, calc.obs)]
    /\ UNCHANGED << programVars, audit >>

\* The second iteration (src/index.js, applyFromRow and reconcileTierRoles)
ComputeSecond ==
    /\ calc.on /\ "second" \notin calc.done
    /\ calc' = [calc EXCEPT !.done = @ \cup {"second"},
                            !.wantSecond = desiredTierRoleId(calc.tier),
                            !.second = reconcileTierRoles(desiredTierRoleId(calc.tier),
                                                          calc.obs, editable)]
    /\ UNCHANGED << programVars, audit >>

NextCompute == ComputeOptimized \/ ComputeFirst \/ ComputeSecond

SpecCompute == InitCompute /\ [][NextCompute]_vars

(***************************************************************************)
(* The missing-discord_id audit (first iteration, src/index.js): the       *)
(* ready handler has awaited getGuild() before it starts the audit loop,   *)
(* so the `await getGuild()` of postMissingReport resumes at once.         *)
(***************************************************************************)
\* Invocations of runMissingAuditOnce in one behaviour
MaxAudits == 2
\* Changes of the set of rows without discord_id in one behaviour
MaxStoreChanges == 2

\* Primary keys of the rows that may lack a discord_id
AuditIds == {1, 2}

\* The arrays a query may return for a set of rows: any order
RowsOf(S) == {r \in [1..Cardinality(S) -> S] : \A i, j \in 1..Cardinality(S) : r[i] = r[j] => i = j}

RECURSIVE Insert(_, _)
Insert(x, s) == IF s = <<>> THEN <<x>>
                ELSE IF x <= s[1] THEN <<x>> \o s ELSE <<s[1]>> \o Insert(x, Tail(s))

RECURSIVE Sort(_)
\* Array.prototype.sort
Sort(s) == IF s = <<>> THEN <<>> ELSE Insert(s[1], Sort(Tail(s)))

\* Mutant of signatureFor: the ids are joined in the order of the query
signatureUnsorted(rows) == rows

\* rows.map(r => String(r.id ?? labelForRow(r))).sort().join(","): the
\* sequence of the ids stands for the joined string, <<>> for ""
signatureFor(rows) == Sort(rows)

NewRun == [pc |-> "fetch",          \* "fetch" | "channel" | "send" | "done"
           saw |-> {},              \* rows the invocation got from the store
           sig |-> <<>>,            \* signatureFor(rows)
           held |-> <<>>,           \* lastMissingKey when it was compared
           prevSaw |-> {},          \* rows the previous invocation got
           hadPrev |-> FALSE,       \* there was a previous invocation
           compared |-> FALSE,
           ord |-> 0,               \* how many invocations had compared their
                                    \* signature, this one included
           posted |-> FALSE,        \* postMissingReport was called
           out |-> "none"]          \* "none" | "log" | "sink" | "warn" | "thrown"

InitAudit ==
    /\ Loaded
    /\ calc = NoCalc
    /\ \E c \in BOOLEAN, S \in SUBSET AuditIds :
          audit = [NoAudit EXCEPT !.on = TRUE, !.configured = c, !.missing = S]

\* startMissingAuditLoop's first call and the setInterval callback
AuditStart ==
    /\ audit.on /\ Len(audit.runs) < MaxAudits
    /\ audit' = [audit EXCEPT !.runs = Append(@, NewRun)]
    /\ UNCHANGED << programVars, calc >>

\* Somebody links a player or adds a player without discord_id
StoreChange ==
    /\ audit.on /\ audit.changes < MaxStoreChanges
    /\ \E id \in AuditIds :
          audit' = [audit EXCEPT !.changes = @ + 1,
                                 !.missing = IF id \in @ THEN @ \ {id} ELSE @ \cup {id}]
    /\ UNCHANGED << programVars, calc >>

\* Mutant of AuditFetched: lastMissingKey is not assigned before the await of
\* postMissingReport, other invocations compare with the old value meanwhile
AuditFetchedLateUpdate(i) ==
    /\ audit.on /\ i \in 1..Len(audit.runs) /\ audit.runs[i].pc = "fetch"
    /\ \E rows \in RowsOf(audit.missing) \cup {<<>>} :
          LET sig == signatureFor(rows)
              saw == {rows[n] : n \in 1..Len(rows)}
              differs == sig # audit.lastMissingKey
              r == [audit.runs[i] EXCEPT
                        !.saw = saw, !.sig = sig, !.held = audit.lastMissingKey,
                        !.prevSaw = audit.lastSaw,
                        !.hadPrev = \E j \in 1..Len(audit.runs) : audit.runs[j].compared,
                        !.compared = TRUE, !.posted = differs,
                        !.ord = 1 + Cardinality({j \in 1..Len(audit.runs) :
                                                    audit.runs[j].compared}),
                        !.pc = IF differs /\ audit.configured THEN "channel" ELSE "done",
                        !.out = IF differs /\ ~audit.configured THEN "log" ELSE "none"]
          IN  audit' = [audit EXCEPT !.runs[i] = r, !.lastSaw = saw]
    /\ UNCHANGED << programVars, calc >>

\* runMissingAuditOnce from the return of fetchMissingDiscordIds (rows, or []
\* on a query error) to the first await of postMissingReport that waits
AuditFetched(i) ==
    /\ audit.on /\ i \in 1..Len(audit.runs) /\ audit.runs[i].pc = "fetch"
    /\ \E rows \in RowsOf(audit.missing) \cup {<<>>} :
          LET sig == signatureFor(rows)
              saw == {rows[n] : n \in 1..Len(rows)}
              differs == sig # audit.lastMissingKey
              r == [audit.runs[i] EXCEPT
                        !.saw = saw, !.sig = sig, !.held = audit.lastMissingKey,
                        !.prevSaw = audit.lastSaw,
                        !.hadPrev = \E j \in 1..Len(audit.runs) : audit.runs[j].compared,
                        !.compared = TRUE, !.posted = differs,
                        !.ord = 1 + Cardinality({j \in 1..Len(audit.runs) :
                                                    audit.runs[j].compared}),
                        !.pc = IF differs /\ audit.configured THEN "channel" ELSE "done",
                        !.out = IF differs /\ ~audit.configured THEN "log" ELSE "none"]
          IN  audit' = [audit EXCEPT !.runs[i] = r, !.lastSaw = saw,
                                     !.lastMissingKey = IF differs THEN sig ELSE @]
    /\ UNCHANGED << programVars, calc >>

\* guild.channels.fetch(MISSING_IDS_CHANNEL_ID).catch(() => null) settles
AuditChannel(i) ==
    /\ audit.on /\ i \in 1..Len(audit.runs) /\ audit.runs[i].pc = "channel"
    /\ \/ audit' = [audit EXCEPT !.runs[i].pc = "send"]
       \/ audit' = [audit EXCEPT !.runs[i].pc = "done",    \* not found or not text-based
                                 !.runs[i].out = "warn"]
    /\ UNCHANGED << programVars, calc >>

\* channel.send({ embeds: [embed] }) settles
AuditSend(i) ==
    /\ audit.on /\ i \in 1..Len(audit.runs) /\ audit.runs[i].pc = "send"
    /\ \E o \in {"sink", "thrown"} :
          audit' = [audit EXCEPT !.runs[i].pc = "done", !.runs[i].out = o]
    /\ UNCHANGED << programVars, calc >>

NextAudit ==
    \/ AuditStart
    \/ StoreChange
    \/ \E i \in 1..MaxAudits : AuditFetched(i)
    \/ \E i \in 1..MaxAudits : AuditChannel(i)
    \/ \E i \in 1..MaxAudits : AuditSend(i)

SpecAudit == InitAudit /\ [][NextAudit]_vars

(***************************************************************************)
(* Properties.                                                             *)
(***************************************************************************)
TaskIds(m) == 1..Len(tasks[m])
TimerTasks(m) == {i \in TaskIds(m) : tasks[m][i].src = "timer"}
Applying(t) == t.st = "running" /\ t.pc \in {"remove", "add"}

\* C1 - Per-entity serialization: a task of a member has started only if
\* every task enqueued before it for that member has settled, so at most one
\* task of a member is running at any time.
PerEntitySerialization ==
    \A m \in DiscordIds :
        /\ \A i, j \in TaskIds(m) :
              j < i /\ tasks[m][i].st # "waiting" => tasks[m][j].st \in Settled
        /\ Cardinality({i \in TaskIds(m) : tasks[m][i].st = "running"}) <= 1

\* C1 witness: a task is applying while the member's next task waits.
SerializationWitness ==
    \E m \in DiscordIds :
        /\ Len(tasks[m]) >= 2
        /\ Applying(tasks[m][1])
        /\ tasks[m][2].st = "waiting"

\* C2 - Debounce coalescing: at most one timer is armed per member, and every
\* debounce window opened so far has either its timer still armed or exactly
\* one task enqueued by it; a cancelled timer enqueues nothing.
DebounceCoalescing ==
    \A m \in DiscordIds :
        /\ Cardinality(liveTimers[m]) <= 1
        /\ Cardinality(TimerTasks(m)) + Cardinality(liveTimers[m]) = windows[m]
        /\ (liveTimers[m] = {}) = (window[m] = <<>>)
        /\ \A i \in TimerTasks(m) : Len(tasks[m][i].win) >= 1

\* C2 witness: a window of two schedule calls has closed with one task.
CoalescingWitness ==
    \E m \in DiscordIds :
        /\ windows[m] = 1 /\ liveTimers[m] = {}
        /\ Cardinality(TimerTasks(m)) = 1
        /\ \E i \in TimerTasks(m) : Len(tasks[m][i].win) = 2

\* C3 - Latest wins: the task a debounce timer enqueues carries the tier of
\* the last schedule call of its window.
LatestWins ==
    \A m \in DiscordIds : \A i \in TimerTasks(m) :
        LET w == tasks[m][i].win IN w # <<>> /\ tasks[m][i].tier = w[Len(w)]

\* C3 witness: a window of two calls with different tiers has closed, and the
\* task carries the second.
LatestWinsWitness ==
    \E m \in DiscordIds : \E i \in TimerTasks(m) :
        LET w == tasks[m][i].win
        IN  Len(w) = 2 /\ w[1] # w[2] /\ tasks[m][i].tier = w[2]

\* C4 - Ordering in the Applier: when a task has submitted its add call and
\* has roles to remove, its remove call was submitted before and has settled.
RemoveBeforeAdd ==
    \A m \in DiscordIds : \A i \in TaskIds(m) :
        LET t == tasks[m][i]
        IN  t.ad # "none" /\ t.toRemove # {} => t.rm \in {"ok", "failed"}

\* C4 witness: a task whose remove has settled has its add in flight.
RemoveBeforeAddWitness ==
    \E m \in DiscordIds : \E i \in TaskIds(m) :
        tasks[m][i].rm = "ok" /\ tasks[m][i].ad = "inflight"

\* C5 as claimed - remove and add are independent: a settled task that had
\* roles to remove and a role to add, and whose remove call failed, has
\* attempted its add call.
AddAttemptedAfterFailedRemove ==
    \A m \in DiscordIds : \A i \in TaskIds(m) :
        LET t == tasks[m][i]
        IN  t.st \in Settled /\ t.toRemove # {} /\ t.toAdd # {} /\ t.rm = "failed"
               => t.ad # "none"

\* C5 as amended - remove and add share one try block: when the remove call
\* fails the add call is not attempted in that task; the failure is caught,
\* the task settles without rejecting and records nothing as applied.
FailedRemoveAbandonsTask ==
    \A m \in DiscordIds : \A i \in TaskIds(m) :
        LET t == tasks[m][i]
        IN  t.rm = "failed" => t.ad = "none" /\ t.st = "fulfilled" /\ ~t.ok

\* C5 witness: a task with a role to add has settled after its remove failed.
FailedRemoveWitness ==
    \E m \in DiscordIds : \E i \in TaskIds(m) :
        LET t == tasks[m][i]
        IN  t.rm = "failed" /\ t.toAdd # {} /\ t.st = "fulfilled"

\* C6 - Non-interference: every role id a task passes to roles.remove or
\* roles.add is in ALL_TIER_IDS, and no step of the program changes which
\* roles outside ALL_TIER_IDS a member holds.
NonInterference ==
    /\ [](\A m \in DiscordIds : \A i \in TaskIds(m) :
             tasks[m][i].toRemove \cup tasks[m][i].toAdd \subseteq ALL_TIER_IDS)
    /\ [][\A m \in DiscordIds :
             \/ roles'[m] \ ALL_TIER_IDS = roles[m] \ ALL_TIER_IDS
             \/ ExternalChange(m)]_vars

\* C6 witness: a task has removed a tier role of a member who held a role of
\* somebody else before, and holds it still.
NonInterferenceWitness ==
    \E m \in DiscordIds : \E i \in TaskIds(m) :
        LET t == tasks[m][i]
        IN  /\ t.rm = "ok" /\ t.st = "fulfilled"
            /\ UnmanagedRole \in t.obs /\ UnmanagedRole \in roles[m]

\* C7 - Diff correctness: with observedManaged the tier roles observed,
\* toAdd is disjoint from observedManaged, toRemove is within observedManaged
\* and disjoint from desired; when canEditRoleCached answers true for every
\* tier role, toRemove = observedManaged \ desired and
\* toAdd = desired \ observedManaged.
DiffCorrect ==
    \A m \in DiscordIds : \A i \in TaskIds(m) :
        LET t == tasks[m][i]
            desired == Desired(t.tier)
            observedManaged == t.obs \cap ALL_TIER_IDS
        IN  t.diffed =>
              /\ t.toAdd \cap observedManaged = {}
              /\ t.toRemove \subseteq observedManaged
              /\ t.toRemove \cap desired = {}
              /\ t.canAll => /\ t.toRemove = observedManaged \ desired
                             /\ t.toAdd = desired \ observedManaged

\* C7 witness (scenario B): a member holding a stale tier role and a role of
\* somebody else gets the stale role removed and the desired one added.
DiffWitness ==
    \E m \in DiscordIds : \E i \in TaskIds(m) :
        LET t == tasks[m][i]
        IN  /\ t.diffed /\ t.canAll /\ UnmanagedRole \in t.obs
            /\ t.toRemove = {"role-T1"} /\ t.toAdd = {"role-T2"}

\* Task i and task i + 1 of m are two runs in a row with the same desired
\* state, and nobody else changed the member's roles after the first settled.
TwiceInARow(m, i) ==
    /\ i + 1 \in TaskIds(m)
    /\ tasks[m][i].st \in Settled /\ tasks[m][i + 1].st \in Settled
    /\ tasks[m][i].tier = tasks[m][i + 1].tier
    /\ ~tasks[m][i + 1].ext

ChainSurvivesRejection ==
    \A m \in DiscordIds : \A i \in TaskIds(m) :
        LET t == tasks[m][i]
        IN  t.prev # 0 /\ tasks[m][t.prev].st = "rejected"
               => /\ t.st = "waiting" => ENABLED StartTask(m, i)
                  /\ t.st # "waiting" => t.ran

\* C9 witness: fn of the task chained on a rejected one has been called and
\* that task has settled in its turn (the lookup that rejected its predecessor
\* stays cached, so it settles by rejecting as well).
ChainSurvivesWitness ==
    \E m \in DiscordIds : \E i \in TaskIds(m) :
        LET t == tasks[m][i]
        IN  t.prev # 0 /\ tasks[m][t.prev].st = "rejected" /\ t.ran /\ t.st \in Settled

\* C10 as claimed - Cross-entity isolation: no task fails on a lookup that
\* had already failed in a task of another member before the task asked for it.
CrossEntityIsolation ==
    \A m \in DiscordIds : \A i \in TaskIds(m) :
        ~(tasks[m][i].st = "rejected" /\ tasks[m][i].inherited)

\* The member fetch of a settled task failed: the task returned at
\* `if (!member) return`
MemberMissing(t) ==
    /\ t.st = "fulfilled" /\ ~t.ok /\ ~t.skipped /\ manageRoles
    /\ t.rm # "failed" /\ t.ad # "failed"

\* The task was abandoned on a failure of the directory
Abandoned(t) ==
    t.st = "rejected" \/ t.rm = "failed" \/ t.ad = "failed" \/ MemberMissing(t)

\* A directory call failed while task i of m ran.  A task that rejects after
\* its chain predecessor rejected met no failure of its own: the lookup had
\* failed before the task started.
FailedDuring(m, i) ==
    LET t == tasks[m][i]
    IN  \/ t.rm = "failed" \/ t.ad = "failed" \/ MemberMissing(t)
        \/ t.st = "rejected" /\ (t.prev = 0 \/ tasks[m][t.prev].st # "rejected")

\* C11 as claimed - Recovery after a transient failure: the task of a change
\* event that was handled after the previous task of the member had been
\* abandoned on a failure, and during which no directory call failed, has
\* reconciled the member (it reached lastAppliedTier.set) once it has settled.
RecoveryAfterFailure ==
    \A m \in DiscordIds : \A i \in TimerTasks(m) :
        LET t == tasks[m][i]
        IN  /\ manageRoles /\ t.prev # 0 /\ t.seen = t.prev
            /\ Abandoned(tasks[m][t.prev])
            /\ t.st \in Settled /\ ~FailedDuring(m, i) /\ ~t.skipped
            => t.ok

\* What the hierarchy rule lets the bot change for a desired state: the stale
\* tier roles it can edit, and the missing desired role if it can edit it.
EditableStale(desired, obs, ed) == {r \in (obs \cap ALL_TIER_IDS) \ desired : ed[r]}
EditableMissing(desired, obs, ed) == {r \in desired \ obs : ed[r]}

\* Permission failures in the optimized program: a tier role the bot cannot
\* edit is left out of toRemove / toAdd, every other role of the diff is in.
\* (The answer for a role of the diff is cached when the diff is built, so
\* canEditRoleCached still gives the answer the task got.)
DroppedPerTagOptimized ==
    \A m \in DiscordIds : \A i \in TaskIds(m) :
        LET t == tasks[m][i]
            can == [r \in ALL_TIER_IDS |->
                       canEditRoleCached(editableRoleCache, editable, r)]
        IN  t.diffed =>
              /\ t.toRemove = EditableStale(Desired(t.tier), t.obs, can)
              /\ t.toAdd = EditableMissing(Desired(t.tier), t.obs, can)

\* C12 as claimed - Permission failures are per-tag and non-fatal: for a row
\* with a valid tier, every stale tier role the bot can edit is in toRemove
\* and the desired role is in toAdd if it is missing and the bot can edit it,
\* whatever the bot can do with the other roles; in the optimized program and
\* in reconcileTierRoles alike.
PermissionPerTag ==
    LET desired == desiredTierRoleId(calc.tier)
    IN  /\ "optimized" \in calc.done /\ isValidTier(calc.tier) # NULL
           => /\ calc.optimized.toRemove =
                    EditableStale(Desired(isValidTier(calc.tier)), calc.obs, editable)
              /\ calc.optimized.toAdd =
                    EditableMissing(Desired(isValidTier(calc.tier)), calc.obs, editable)
        /\ "second" \in calc.done /\ desired # {}
           => /\ calc.second.toRemove = EditableStale(desired, calc.obs, editable)
              /\ calc.second.toAdd = EditableMissing(desired, calc.obs, editable)

\* A step arms a debounce timer for member k
Schedules(k) == liveTimers'[k] \ liveTimers[k] # {}

\* C13 - Change-feed relevance filter: a step arms a timer for a member only
\* if it is an insert or an update that leaves the member's row with a
\* discord_id and with discord_id or tier changed; a delete, and an update
\* that changes neither, change nothing but the table.
RelevanceFilter ==
    [][\A k \in DiscordIds :
          /\ Schedules(k) => db'[k].st = "linked" /\ db'[k] # db[k]
          /\ DeleteEvent(k) \/ (UpdateEvent(k) /\ db'[k] = db[k])
                => UNCHANGED << roles, editable, manageRoles, guildPromise, mePromise,
                                editableRoleCache, lastAppliedTier, debounceTimers,
                                liveTimers, memberQueues, tasks, sweep, window,
                                windows >>]_vars

\* C13 witness: the row of one member was deleted and nothing was ever
\* scheduled for it, while an event of the other member opened a window.
RelevanceWitness ==
    \E k, j \in DiscordIds :
        /\ db[k].st = "absent" /\ windows[k] = 0 /\ liveTimers[k] = {}
        /\ windows[j] = 1

\* C14 - A row without discord_id leads to no directory action: an insert or
\* update whose after-row has no discord_id changes nothing but the table,
\* and the sweep enqueues nothing for a row it read without discord_id.
NullIdentifierInert ==
    [][\A k \in DiscordIds :
          /\ (InsertEvent(k) \/ UpdateEvent(k)) /\ DiscordIdOf(k, db'[k]) = NoId
                => UNCHANGED << roles, editable, manageRoles, guildPromise, mePromise,
                                editableRoleCache, lastAppliedTier, debounceTimers,
                                liveTimers, memberQueues, tasks, sweep, window,
                                windows >>
          /\ SweepReturn /\ DiscordIdOf(k, sweep.data[k]) = NoId
                => tasks'[k] = tasks[k] /\ memberQueues'[k] = memberQueues[k]]_vars

\* C14 witness: the sweep has enqueued a task for the linked member and none
\* for the member whose row has no discord_id, and an update of that row's
\* tier has scheduled nothing.
NullIdentifierWitness ==
    \E k, j \in DiscordIds :
        /\ sweep.pc = "done" /\ tasks[j] # <<>>
        /\ db[k].st = "unlinked" /\ db[k].tier # InitRows[k].tier
        /\ tasks[k] = <<>> /\ windows[k] = 0 /\ liveTimers[k] = {}

AuditRuns == {i \in 1..Len(audit.runs) : audit.runs[i].compared}

\* C15 - Audit suppression: an invocation that got the same rows as the
\* invocation before it does not call postMissingReport, and an invocation
\* calls postMissingReport only if its signature differs from lastMissingKey.
AuditSuppression ==
    \A i \in AuditRuns :
        LET r == audit.runs[i]
        IN  /\ r.hadPrev /\ r.saw = r.prevSaw => ~r.posted /\ r.out = "none"
            /\ r.posted => r.sig # r.held

\* C15 witness: an invocation that reported a non-empty set is followed by
\* one that got the same rows and stayed silent.
AuditSuppressionWitness ==
    \E i, j \in AuditRuns :
        /\ audit.runs[i].posted /\ audit.runs[i].saw = AuditIds
        /\ audit.runs[j].hadPrev /\ audit.runs[j].saw = audit.runs[j].prevSaw
        /\ audit.runs[j].saw = AuditIds /\ audit.runs[j].pc = "done"

\* C16 as claimed - Audit delivery fallback: an invocation that recorded a
\* changed signature in lastMissingKey and has finished has delivered the
\* report to the channel or written it to the log.
AuditDelivered ==
    \A i \in AuditRuns :
        LET r == audit.runs[i]
        IN  r.posted /\ r.pc = "done" => r.out \in {"sink", "log"}

\* A tier value that is present and that no iteration of the program accepts
Unparseable(tier) == tier # <<>> /\ parseTier(tier) = NULL /\ isValidTier(tier) = NULL

\* Invalid tier in the optimized program: a task with no desired role adds
\* nothing and removes the tier roles the member holds that the bot can edit.
InvalidTierClearsOptimized ==
    \A m \in DiscordIds : \A i \in TaskIds(m) :
        LET t == tasks[m][i]
            can == [r \in ALL_TIER_IDS |->
                       canEditRoleCached(editableRoleCache, editable, r)]
        IN  t.diffed /\ t.tier = NULL
               => t.toAdd = {} /\ t.toRemove = EditableStale({}, t.obs, can)

\* C17 as claimed - Invalid tier handling: for a row whose tier is
\* unparseable the computation gives a result with no role to add, and every
\* tier role the member holds that the bot can edit is in toRemove (no other
\* role is); in the optimized program and in applyFromRow of src/index.js.
InvalidTierClearsStale ==
    Unparseable(calc.tier) =>
        /\ "optimized" \in calc.done
              => /\ calc.optimized.toAdd = {}
                 /\ calc.optimized.toRemove = EditableStale({}, calc.obs, editable)
        /\ "first" \in calc.done
              => /\ calc.first.toAdd = {}
                 /\ EditableStale({}, calc.obs, editable) \subseteq calc.first.toRemove
                 /\ calc.first.toRemove \subseteq calc.obs \cap ALL_TIER_IDS

\* C18 as claimed - Desired-state mapping of a valid tier: for a row whose
\* tier is the label "T1" .. "T4" the desired roles are exactly the tier role
\* of that label; in the optimized program (isValidTier) and in the first
\* iteration (parseTier).
LabelMapsToTierRole ==
    \A n \in 1..4 :
        calc.tier = TierLabels[n] =>
            /\ "optimized" \in calc.done => calc.wantOptimized = {TIER_ROLE_IDS[n]}
            /\ "first" \in calc.done => calc.wantFirst = {TIER_ROLE_IDS[n]}

\* The results a desired-tier computation may give
TierResults == {NULL, 1, 2, 3, 4}

LastSettled(m) ==
    LET S == {i \in TaskIds(m) : tasks[m][i].st \in Settled}
    IN  IF S = {} THEN 0 ELSE CHOOSE i \in S : \A j \in S : j <= i

\* C20 as claimed - Cache after failure: when the task of a member that
\* settled last ended in failure (member not found, lookup rejected, remove
\* or add rejected), lastAppliedTier has no entry for the member.
CacheClearedOnFailure ==
    \A m \in DiscordIds :
        LastSettled(m) # 0 /\ Abandoned(tasks[m][LastSettled(m)])
            => lastAppliedTier[m] = UNDEF

\* The tier roles of the member as task t observed them and then changed them
ManagedAfter(t) == ((t.obs \ t.toRemove) \cup t.toAdd) \cap ALL_TIER_IDS

\* C21 as claimed - The cache records only successful applications: a task
\* that has written lastAppliedTier (it reached a lastAppliedTier.set) left
\* the member, as it observed and changed the roles, with exactly the desired
\* tier roles of its tier.
CacheOnlyAfterSuccess ==
    \A m \in DiscordIds : \A i \in TaskIds(m) :
        LET t == tasks[m][i]
        IN  t.ok => ManagedAfter(t) = Desired(t.tier)

\* C22 as claimed - The cache is never the source of truth: whenever a task
\* returns at the last-applied check, the tier roles the member holds at that
\* moment are exactly the desired tier roles of the task.
SkipOnlyWhenInSync ==
    [][\A m \in DiscordIds : \A i \in TaskIds(m) :
          (~tasks[m][i].skipped /\ tasks'[m][i].skipped)
              => roles[m] \cap ALL_TIER_IDS = Desired(tasks[m][i].tier)]_vars

\* C23 as claimed - Mutation capability is evaluated at apply time: the diff a
\* task builds is the diff under the capability the acting identity has for
\* each tier role at that moment, whatever an earlier task was answered.
CapabilityAtApplyTime ==
    [][\A m \in DiscordIds : \A i \in TaskIds(m) :
          (~tasks[m][i].diffed /\ tasks'[m][i].diffed)
              => LET desired == Desired(tasks[m][i].tier)
                     now == [r \in ALL_TIER_IDS |-> editable[r]]
                 IN  /\ tasks'[m][i].toRemove = DiffRemove(desired, roles[m], now)
                     /\ tasks'[m][i].toAdd = DiffAdd(desired, roles[m], now)]_vars

\* The last element of a non-empty sequence
Last(s) == s[Len(s)]

\* Task d ran its try block to the end as it had planned it
CompletedAsPlanned(d) ==
    (d.st = "fulfilled" /\ d.rm # "failed" /\ d.ad # "failed")
        => /\ d.ok
           /\ d.toRemove # {} => d.rm = "ok"
           /\ d.toAdd # {} => d.ad = "ok"

\* C24 - An event during an in-flight apply: a relevant change event for a
\* member that is handled while a task of the member is suspended at
\* roles.remove or roles.add leaves that task to finish what it planned, is
\* not lost (a debounce timer carrying the tier of the event's row, or of a
\* later event's row, is armed until it fires), and the timer's task carries
\* that tier, is chained behind the in-flight task and is not called before
\* the in-flight task has settled.
EventDuringApply ==
    \A m \in DiscordIds :
        /\ arrivedDuring[m] # 0
              => LET d == tasks[m][arrivedDuring[m]]
                 IN  /\ d.st = "running" \/ d.st \in Settled
                     /\ CompletedAsPlanned(d)
                     /\ Cardinality(liveTimers[m]) = 1
                     /\ \A t \in liveTimers[m] :
                            t.h = debounceTimers[m] /\ t.tier = Last(window[m])
        /\ \A i \in TaskIds(m) :
              LET t == tasks[m][i]
              IN  t.during # 0
                     => LET d == tasks[m][t.during]
                        IN  /\ t.src = "timer" /\ t.during < i /\ t.prev >= t.during
                            /\ t.tier = Last(t.win)
                            /\ d.st = "running" \/ d.st \in Settled
                            /\ CompletedAsPlanned(d)
                            /\ t.ran => d.st \in Settled

\* A task whose change event arrived while an earlier task of the member was
\* applying a different tier has been called, after that task had settled
EventDuringApplyWitness ==
    \E m \in DiscordIds : \E i \in TaskIds(m) :
        LET t == tasks[m][i]
        IN  /\ t.during # 0 /\ t.ran
            /\ tasks[m][t.during].ok /\ tasks[m][t.during].calls > 0
            /\ tasks[m][t.during].tier # t.tier

\* Member m is quiescent: its row is linked, the bot may manage roles, the
\* sweep has returned, no
\* debounce timer of m is armed, m has tasks and every one of them has run to
\* its end without a directory failure
Quiescent(m) ==
    /\ db[m].st = "linked"
    /\ manageRoles
    /\ sweep.pc = "done"
    /\ liveTimers[m] = {}
    /\ tasks[m] # <<>>
    /\ \A i \in TaskIds(m) :
          /\ tasks[m][i].st = "fulfilled"
          /\ tasks[m][i].rm # "failed" /\ tasks[m][i].ad # "failed"
          /\ ~MemberMissing(tasks[m][i])

\* C25 as claimed - Convergence after quiescence: once a member is quiescent,
\* the last task executed for the member carried the tier of the member's
\* current row; a sweep row read before a newer change event is not applied
\* after that event's task.
ConvergesAfterQuiescence ==
    \A m \in DiscordIds :
        Quiescent(m) => tasks[m][Len(tasks[m])].tier = isValidTier(db[m].tier)

\* C26 - Overlapping audits: the comparison of an invocation's signature with
\* lastMissingKey and the assignment of lastMissingKey are one step, so
\* lastMissingKey is the signature of the last invocation that reported, an
\* invocation reports exactly when its signature differs from the value it
\* compared with, and of two invocations that got the same rows the later
\* one to compare reports only if an invocation that got other rows reported
\* between them: invocations that overlap and see the same set emit at most
\* one report for it.
OverlappingAudits ==
    /\ \A i \in AuditRuns : audit.runs[i].posted <=> audit.runs[i].sig # audit.runs[i].held
    /\ \A i, j \in AuditRuns :
          LET a == audit.runs[i]
              b == audit.runs[j]
          IN  (a.ord < b.ord /\ a.saw = b.saw /\ a.sig = b.sig /\ a.posted /\ b.posted)
                 => \E k \in AuditRuns :
                        /\ a.ord < audit.runs[k].ord /\ audit.runs[k].ord < b.ord
                        /\ audit.runs[k].posted /\ audit.runs[k].sig # a.sig
    /\ \A i, j \in AuditRuns : i # j => audit.runs[i].ord # audit.runs[j].ord
    /\ LET P == {i \in AuditRuns : audit.runs[i].posted}
       IN  IF P = {} THEN audit.lastMissingKey = <<>>
           ELSE \E i \in P : /\ \A j \in P : audit.runs[j].ord <= audit.runs[i].ord
                             /\ audit.lastMissingKey = audit.runs[i].sig

\* An invocation is still awaiting the delivery of its report on a non-empty
\* set when a later invocation, which got the same rows, has compared its
\* signature and stayed silent
OverlappingAuditsWitness ==
    \E i, j \in AuditRuns :
        /\ i < j
        /\ audit.runs[i].posted /\ audit.runs[i].pc \in {"channel", "send"}
        /\ audit.runs[i].saw = AuditIds /\ audit.runs[j].saw = AuditIds
        /\ audit.runs[i].ord < audit.runs[j].ord
        /\ ~audit.runs[j].posted /\ audit.runs[j].pc = "done"

====
